---- MODULE Spec2Model ----
(***************************************************************************)
(* The FRITZ!Box polling coordinator (FritzBoxTools) and its per-device    *)
(* presence record (FritzDevice), homeassistant/components/fritz/common.py *)
(*                                                                         *)
(* Strings the code inspects character by character (mac, host name) are   *)
(* tuples of one-character strings; <<>> is the empty string.  A Python    *)
(* dict returned by the router is a set of <<key, value>> pairs.           *)
(***************************************************************************)
EXTENDS Integers, Sequences, FiniteSets, TLC

\* ---------------------------------------------------------------- bounds
\* longest host list one fetch returns
MaxHosts == 2
\* number of times the scheduler fires the coordinator
MaxTriggers == 2
\* number of times the clock advances
MaxTicks == 2
\* seconds the clock advances by
TickSeconds == 100
\* number of cycles when scans are applied again
MaxRepeatCycles == 3
\* number of warnings the warning service reports for a region
MaxWarnings == 2

VARIABLES
    devices,      \* FritzBoxTools._devices: mac -> FritzDevice
    options,      \* FritzBoxTools._options
    now,          \* dt_util.utcnow(), in seconds
    is_stopping,  \* hass.is_stopping
    pc,           \* position of the cycle in flight, "idle" when none is
    hosts,        \* scan_devices: number of entries of the fetched host list still to iterate
    known_host,   \* scan_devices: the entry of the iteration at hand
    wan_calls,    \* GetWANAccessByIP calls of the iteration at hand, with their answers
    new_device,   \* scan_devices: local new_device
    signals,      \* dispatcher signals sent by the cycle in flight (or the last one)
    result,       \* how the last cycle ended for the host scheduler
    triggers,     \* number of scheduler triggers so far
    cycles,       \* number of cycles started so far
    keys0,        \* the keys of _devices when the cycle in flight (or the last one) started
    scanned,      \* the macs the cycle in flight (or the last one) has iterated
    scan_log,     \* the observations the cycle applied, each with the clock it read
    prior_log,    \* scan_log of the cycle before
    prior_devices,\* _devices when the cycle started
    replay,       \* "again": the cycle is fed the observations of the cycle before
    swallowed,    \* the exception _update_hosts_info caught and dropped in the cycle, "None" if none
    last_update_success, \* the coordinator's availability: the last cycle that ended raised nothing
    hass_data,    \* nam: hass.data, the DOMAIN key absent until the first entry is stored
    nam_pc,       \* nam: position of each config entry in async_setup_entry, or its load state
    nam_result,   \* nam: what the last async_setup_entry / async_unload_entry call of the entry returned or raised
    nam_update,   \* nam: what the last _async_update_data of the entry's coordinator returned or raised
    ent_reg,      \* nam: the air_quality entities in the entity registry, <<entry, sensor type>>
    nina_pc,      \* nina: "none" before the coordinator is constructed, "fetching" inside _async_update_data
    corona_filter,\* nina: NINADataUpdateCoordinator.corona_filter
    nina_warnings,\* nina: self._nina.warnings, region -> list of raw warnings
    nina_result,  \* nina: what the last _async_update_data returned or raised
    connection,   \* FritzBoxTools.connection is set
    unique_id,    \* FritzBoxTools._unique_id
    model,        \* FritzBoxTools._model
    current_firmware, \* FritzBoxTools._current_firmware
    latest_firmware,  \* FritzBoxTools._latest_firmware
    update_available, \* FritzBoxTools._update_available
    info,         \* setup: the answer of DeviceInfo:1 GetInfo read last
    setup_pc,     \* position of the setup in flight, "idle" when none is
    setup_result, \* how the last setup ended, "none" before the first
    accessed      \* the property read last and what reading it gave

\* the record of the scans, kept only where a scan is applied again
replayVars == <<scan_log, prior_log, prior_devices, replay>>

\* what the scheduler and the log see of the cycles, kept only where they
\* are followed
coordVars == <<swallowed, last_update_success>>

\* the router coordinator's own state
fritzVars == <<devices, options, now, is_stopping, pc, hosts, known_host, wan_calls,
               new_device, signals, result, triggers, cycles, keys0, scanned>>

\* the Nettigo Air Monitor integration
namVars == <<hass_data, nam_pc, nam_result, nam_update, ent_reg>>

\* the NINA warning integration
ninaVars == <<nina_pc, corona_filter, nina_warnings, nina_result>>

\* the router coordinator's identity, filled by setup
setupVars == <<connection, unique_id, model, current_firmware, latest_firmware,
               update_available, info, setup_pc, setup_result, accessed>>

\* the state of the other components, which the router's cycles leave alone
otherVars == <<namVars, ninaVars, setupVars>>

vars == <<devices, options, now, is_stopping, pc, hosts, known_host, wan_calls,
          new_device, signals, result, triggers, cycles, keys0, scanned,
          replayVars, coordVars, otherVars>>

\* ---------------------------------------------------------------- values
\* FritzDevice._last_activity = None
NoTime == -1
\* FritzDevice._ip_address = None
NoIp == "None"

Mac1 == <<"a", ":", "1">>
Mac2 == <<"b", ":", "2">>
Macs == {Mac1, Mac2}
Names == {<<>>, <<"p", "c">>}
Ips == {"", "10.0.0.2"}

\* device_tracker.const.DEFAULT_CONSIDER_HOME, in seconds
DEFAULT_CONSIDER_HOME == 180
CONF_CONSIDER_HOME == "consider_home"

\* The option mappings async_setup may be given; None and {} are both falsy.
OptionValues == {{}, {<<CONF_CONSIDER_HOME, 0>>}}

\* HostInfo entries of get_hosts_info(): one device in every combination of
\* name, ip and status, a second device that reports neither name nor ip and
\* is never active (the code has no path that depends on which mac an entry
\* carries, so the histories of an active device are those of the first), and
\* the entries without a usable mac (no "mac" key, or the empty string; the
\* code reads no other field of such an entry).
HostInfos ==
    [mac : {Mac1}, name : Names, ip : Ips, status : BOOLEAN]
        \cup {[mac |-> Mac2, name |-> <<>>, ip |-> "", status |-> FALSE]}
        \cup {[name |-> <<>>, ip |-> "", status |-> FALSE]}
        \cup {[mac |-> <<>>, name |-> <<>>, ip |-> "", status |-> TRUE]}

\* no entry at hand: the loop is not running
NoHost == [none |-> TRUE]

\* Exceptions the fritzconnection calls may raise: the two kinds
\* _async_update_data names, a subclass of FritzConnectionException, and one
\* kind outside the fritzconnection hierarchy.
ExcKinds == {"FritzSecurityError", "FritzConnectionException",
             "FritzServiceError", "KeyError"}

\* GetWANAccessByIP answers
WanAccessResults == {{}, {<<"NewDisallow", TRUE>>}, {<<"NewDisallow", FALSE>>}}

\* ---------------------------------------------------------------- helpers
\* known_host.get("mac") taken as present whenever the key is
HasMac_KeyOnly(host) == "mac" \in DOMAIN host

\* known_host.get("mac"), as a truth value
HasMac(host) == "mac" \in DOMAIN host /\ host.mac # <<>>

\* d.get(key), as a truth value
DictGetTruthy(d, key) == \E p \in d : p[1] = key /\ p[2] = TRUE

\* mac.replace(":", "_")
MacReplace(mac) == [i \in DOMAIN mac |-> IF mac[i] = ":" THEN "_" ELSE mac[i]]

\* scan_devices: consider_home from the options
ConsiderHome(opts) ==
    IF opts # {}
    THEN IF \E p \in opts : p[1] = CONF_CONSIDER_HOME
         THEN (CHOOSE p \in opts : p[1] = CONF_CONSIDER_HOME)[2]
         ELSE DEFAULT_CONSIDER_HOME
    ELSE DEFAULT_CONSIDER_HOME

\* Device(dev_mac, dev_ip, dev_name, dev_wan_access)
Device(mac, ip_address, name, wan_access) ==
    [mac |-> mac, ip_address |-> ip_address, name |-> name, wan_access |-> wan_access]

\* FritzDevice.__init__
FritzDeviceInit(mac, name) ==
    [mac |-> mac, name |-> name, ip_address |-> NoIp, last_activity |-> NoTime,
     connected |-> FALSE, wan_access |-> FALSE]

\* FritzDevice.update with the activity stamp taken only on the first sighting
FritzDeviceUpdate_StampOnce(self, dev_info, dev_home, consider_home, utc_point_in_time) ==
    LET consider_home_evaluated ==
            IF self.last_activity # NoTime
            THEN (utc_point_in_time - self.last_activity) < consider_home
            ELSE dev_home
    IN  [mac |-> self.mac,
         name |-> IF self.name = <<>>
                  THEN (IF dev_info.name # <<>> THEN dev_info.name
                        ELSE MacReplace(self.mac))
                  ELSE self.name,
         connected |-> dev_home \/ consider_home_evaluated,
         last_activity |-> IF dev_home /\ self.last_activity = NoTime
                           THEN utc_point_in_time ELSE self.last_activity,
         ip_address |-> dev_info.ip_address,
         wan_access |-> dev_info.wan_access]

\* FritzDevice.update with the grace window closed on the right (<= for <)
FritzDeviceUpdate_InclusiveGrace(self, dev_info, dev_home, consider_home, utc_point_in_time) ==
    LET consider_home_evaluated ==
            IF self.last_activity # NoTime
            THEN (utc_point_in_time - self.last_activity) <= consider_home
            ELSE dev_home
    IN  [mac |-> self.mac,
         name |-> IF self.name = <<>>
                  THEN (IF dev_info.name # <<>> THEN dev_info.name
                        ELSE MacReplace(self.mac))
                  ELSE self.name,
         connected |-> dev_home \/ consider_home_evaluated,
         last_activity |-> IF dev_home THEN utc_point_in_time ELSE self.last_activity,
         ip_address |-> dev_info.ip_address,
         wan_access |-> dev_info.wan_access]

\* FritzDevice.update with the activity stamp taken on every observation
FritzDeviceUpdate_StampAlways(self, dev_info, dev_home, consider_home, utc_point_in_time) ==
    LET consider_home_evaluated ==
            IF self.last_activity # NoTime
            THEN (utc_point_in_time - self.last_activity) < consider_home
            ELSE dev_home
    IN  [mac |-> self.mac,
         name |-> IF self.name = <<>>
                  THEN (IF dev_info.name # <<>> THEN dev_info.name
                        ELSE MacReplace(self.mac))
                  ELSE self.name,
         connected |-> dev_home \/ consider_home_evaluated,
         last_activity |-> utc_point_in_time,
         ip_address |-> dev_info.ip_address,
         wan_access |-> dev_info.wan_access]

\* FritzDevice.update taking ip and wan access only from an active device
FritzDeviceUpdate_KeepsWhenAway(self, dev_info, dev_home, consider_home, utc_point_in_time) ==
    LET consider_home_evaluated ==
            IF self.last_activity # NoTime
            THEN (utc_point_in_time - self.last_activity) < consider_home
            ELSE dev_home
    IN  [mac |-> self.mac,
         name |-> IF self.name = <<>>
                  THEN (IF dev_info.name # <<>> THEN dev_info.name
                        ELSE MacReplace(self.mac))
                  ELSE self.name,
         connected |-> dev_home \/ consider_home_evaluated,
         last_activity |-> IF dev_home THEN utc_point_in_time ELSE self.last_activity,
         ip_address |-> IF dev_home THEN dev_info.ip_address ELSE self.ip_address,
         wan_access |-> IF dev_home THEN dev_info.wan_access ELSE self.wan_access]

\* FritzDevice.update taking the name of every observation
FritzDeviceUpdate_Renames(self, dev_info, dev_home, consider_home, utc_point_in_time) ==
    LET consider_home_evaluated ==
            IF self.last_activity # NoTime
            THEN (utc_point_in_time - self.last_activity) < consider_home
            ELSE dev_home
    IN  [mac |-> self.mac,
         name |-> IF dev_info.name # <<>> THEN dev_info.name
                  ELSE MacReplace(self.mac),
         connected |-> dev_home \/ consider_home_evaluated,
         last_activity |-> IF dev_home THEN utc_point_in_time ELSE self.last_activity,
         ip_address |-> dev_info.ip_address,
         wan_access |-> dev_info.wan_access]

\* FritzDevice.update taking a record never seen active as inside its window
FritzDeviceUpdate_GraceWithoutActivity(self, dev_info, dev_home, consider_home, utc_point_in_time) ==
    LET consider_home_evaluated ==
            IF self.last_activity # NoTime
            THEN (utc_point_in_time - self.last_activity) < consider_home
            ELSE TRUE
    IN  [mac |-> self.mac,
         name |-> IF self.name = <<>>
                  THEN (IF dev_info.name # <<>> THEN dev_info.name
                        ELSE MacReplace(self.mac))
                  ELSE self.name,
         connected |-> dev_home \/ consider_home_evaluated,
         last_activity |-> IF dev_home THEN utc_point_in_time ELSE self.last_activity,
         ip_address |-> dev_info.ip_address,
         wan_access |-> dev_info.wan_access]

\* FritzDevice.update taking a record as present once its window has passed
FritzDeviceUpdate_GraceAfterWindow(self, dev_info, dev_home, consider_home, utc_point_in_time) ==
    LET consider_home_evaluated ==
            IF self.last_activity # NoTime
            THEN (utc_point_in_time - self.last_activity) >= consider_home
            ELSE dev_home
    IN  [mac |-> self.mac,
         name |-> IF self.name = <<>>
                  THEN (IF dev_info.name # <<>> THEN dev_info.name
                        ELSE MacReplace(self.mac))
                  ELSE self.name,
         connected |-> dev_home \/ consider_home_evaluated,
         last_activity |-> IF dev_home THEN utc_point_in_time ELSE self.last_activity,
         ip_address |-> dev_info.ip_address,
         wan_access |-> dev_info.wan_access]

\* FritzDevice.update, with utc_point_in_time the clock it reads
FritzDeviceUpdate(self, dev_info, dev_home, consider_home, utc_point_in_time) ==
    LET consider_home_evaluated ==
            IF self.last_activity # NoTime
            THEN (utc_point_in_time - self.last_activity) < consider_home
            ELSE dev_home
    IN  [mac |-> self.mac,
         name |-> IF self.name = <<>>
                  THEN (IF dev_info.name # <<>> THEN dev_info.name
                        ELSE MacReplace(self.mac))
                  ELSE self.name,
         connected |-> dev_home \/ consider_home_evaluated,
         last_activity |-> IF dev_home THEN utc_point_in_time ELSE self.last_activity,
         ip_address |-> dev_info.ip_address,
         wan_access |-> dev_info.wan_access]

\* dev_wan_access taken as the NewDisallow flag itself
DevWanAccess_NotNegated(wan_access) ==
    IF wan_access # {} THEN DictGetTruthy(wan_access, "NewDisallow") ELSE TRUE

\* scan_devices: dev_wan_access from the answer of GetWANAccessByIP
DevWanAccess(wan_access) ==
    IF wan_access # {} THEN ~DictGetTruthy(wan_access, "NewDisallow") ELSE TRUE

\* scan_devices keeping only the record of the entry at hand
ApplyHost_Replaces(devs, host, dev_wan_access, consider_home, utc) ==
    LET dev_mac == host.mac
        dev_info == Device(dev_mac, host.ip, host.name, dev_wan_access)
        device == IF dev_mac \in DOMAIN devs THEN devs[dev_mac]
                  ELSE FritzDeviceInit(dev_mac, host.name)
    IN  [m \in {dev_mac} |->
            FritzDeviceUpdate(device, dev_info, host.status, consider_home, utc)]

\* scan_devices marking every other record as away
ApplyHost_MarksOthersAway(devs, host, dev_wan_access, consider_home, utc) ==
    LET dev_mac == host.mac
        dev_info == Device(dev_mac, host.ip, host.name, dev_wan_access)
        device == IF dev_mac \in DOMAIN devs THEN devs[dev_mac]
                  ELSE FritzDeviceInit(dev_mac, host.name)
    IN  [m \in DOMAIN devs \cup {dev_mac} |->
            IF m = dev_mac
            THEN FritzDeviceUpdate(device, dev_info, host.status, consider_home, utc)
            ELSE [devs[m] EXCEPT !.connected = FALSE]]

\* scan_devices making a fresh record for every entry, known key or not
ApplyHost_CreatesAgain(devs, host, dev_wan_access, consider_home, utc) ==
    LET dev_mac == host.mac
        dev_home == host.status
        dev_info == Device(dev_mac, host.ip, host.name, dev_wan_access)
    IN  [m \in DOMAIN devs \cup {dev_mac} |->
            IF m = dev_mac
            THEN FritzDeviceUpdate(FritzDeviceInit(dev_mac, host.name),
                                   dev_info, dev_home, consider_home, utc)
            ELSE devs[m]]

\* scan_devices: the registry after the record of one host entry is updated
\* or created
ApplyHost(devs, host, dev_wan_access, consider_home, utc) ==
    LET dev_mac == host.mac
        dev_home == host.status
        dev_info == Device(dev_mac, host.ip, host.name, dev_wan_access)
    IN  IF dev_mac \in DOMAIN devs
        THEN [devs EXCEPT ![dev_mac] =
                 FritzDeviceUpdate(@, dev_info, dev_home, consider_home, utc)]
        ELSE [m \in DOMAIN devs \cup {dev_mac} |->
                 IF m = dev_mac
                 THEN FritzDeviceUpdate(FritzDeviceInit(dev_mac, host.name),
                                        dev_info, dev_home, consider_home, utc)
                 ELSE devs[m]]

\* _async_update_data: the except clause
IsFritzException(e) ==
    e \in {"FritzSecurityError", "FritzConnectionException", "FritzServiceError"}

\* How a cycle ends for the scheduler: the exception that leaves
\* _async_update_data (or "ok"), its __cause__, and the call that raised.
Outcome(type, cause, origin) == [type |-> type, cause |-> cause, origin |-> origin]

\* An exception ex (with __cause__ cause) raised in origin leaves scan_devices
\* and ends the cycle in _async_update_data.
Raise(ex, cause, origin) ==
    /\ pc' = "idle"
    /\ result' = IF IsFritzException(ex) THEN Outcome("UpdateFailed", ex, origin)
                 ELSE Outcome(ex, cause, origin)
    /\ known_host' = NoHost
    /\ wan_calls' = <<>>

\* ------------------------------------------------ nam: values and helpers
\* homeassistant/components/nam/__init__.py

NAM_DOMAIN == "nam"
Entries == {"e1", "e2"}

\* the sensor types whose air_quality entities async_setup_entry removes
\* ("sds", ATTR_SDS011, ATTR_SPS30)
DeprecatedSensorTypes == {"sds", "sds011", "sps30"}

\* what NettigoAirMonitor.create may raise: the kinds async_setup_entry
\* names and one kind it does not
NamCreateErrors == {"AuthFailed", "ApiError", "ClientError", "ClientConnectorError",
                    "TimeoutError", "ValueError"}

\* what nam.async_update (under its timeout) may raise: the kinds
\* _async_update_data names and two it does not
NamUpdateErrors == {"ApiError", "ClientConnectorError", "InvalidSensorData",
                    "AuthFailed", "TimeoutError"}

\* what async_config_entry_first_refresh may raise
FirstRefreshErrors == {"ConfigEntryNotReady"}

\* async_setup_entry: the exception raised for an exception err of create
NamSetupRaises(err) ==
    IF err = "AuthFailed" THEN "ConfigEntryAuthFailed"
    ELSE IF err \in {"ApiError", "ClientError", "ClientConnectorError", "TimeoutError"}
         THEN "ConfigEntryNotReady"
         ELSE err

\* NAMDataUpdateCoordinator._async_update_data: the exception raised for an
\* exception err of nam.async_update
NamUpdateRaises(err) ==
    IF err \in {"ApiError", "ClientConnectorError", "InvalidSensorData"}
    THEN "UpdateFailed"
    ELSE err

\* hass.data[DOMAIN], {} when the key is absent
NamCoordinators == IF NAM_DOMAIN \in DOMAIN hass_data THEN hass_data[NAM_DOMAIN] ELSE <<>>

\* hass.data.setdefault(DOMAIN, {}); hass.data[DOMAIN][entry_id] = coordinator
NamStore(data, entry_id, coordinator) ==
    LET old == IF NAM_DOMAIN \in DOMAIN data THEN data[NAM_DOMAIN] ELSE <<>>
    IN  [d \in DOMAIN data \cup {NAM_DOMAIN} |->
            IF d = NAM_DOMAIN
            THEN [k \in DOMAIN old \cup {entry_id} |->
                     IF k = entry_id THEN coordinator ELSE old[k]]
            ELSE data[d]]

\* hass.data[DOMAIN].pop(entry_id)
NamPop(data, entry_id) ==
    [data EXCEPT ![NAM_DOMAIN] =
        [k \in DOMAIN data[NAM_DOMAIN] \ {entry_id} |-> data[NAM_DOMAIN][k]]]

NamInit ==
    /\ hass_data = <<>>
    /\ nam_pc = [e \in Entries |-> "not_loaded"]
    /\ nam_result = [e \in Entries |-> [call |-> "none", raised |-> "None", value |-> "none"]]
    /\ nam_update = [e \in Entries |-> "none"]
    /\ ent_reg = {}

\* ----------------------------------------------- nina: values and helpers
NoneValue == "<None>"
Regions == {"r1", "r2"}

\* the warnings the service may report: headlines that contain "corona" at
\* the start or inside, in mixed case, one that falls a letter short, an
\* empty one and one about something else; time stamps given or None
RawWarnings ==
    { [id |-> "w1", headline |-> <<"C", "o", "r", "o", "n", "a">>,
       sent |-> NoneValue, start |-> NoneValue, expires |-> NoneValue],
      [id |-> "w2", headline |-> <<"x", "c", "o", "R", "O", "N", "a", "!">>,
       sent |-> "s", start |-> "b", expires |-> "e"],
      [id |-> "w3", headline |-> <<"C", "o", "r", "o", "n">>,
       sent |-> "s", start |-> NoneValue, expires |-> ""],
      [id |-> "w4", headline |-> <<>>,
       sent |-> NoneValue, start |-> "b", expires |-> NoneValue],
      [id |-> "w5", headline |-> <<"o", "k">>,
       sent |-> "s", start |-> "b", expires |-> "e"] }

\* what self._nina.update() may raise: the kind _async_update_data names and
\* the timeout it does not
NinaUpdateErrors == {"ApiError", "TimeoutError"}

\* str.lower of one character
LowerChar(c) ==
    CASE c = "A" -> "a" [] c = "C" -> "c" [] c = "N" -> "n"
      [] c = "O" -> "o" [] c = "R" -> "r" [] OTHER -> c

\* str.lower
Lower(str) == [i \in 1..Len(str) |-> LowerChar(str[i])]

\* sub in str
Contains(str, sub) ==
    \E i \in 0..(Len(str) - Len(sub)) : SubSeq(str, i + 1, i + Len(sub)) = sub

\* value or ""
OrEmpty(value) == IF value \in {NoneValue, ""} THEN "" ELSE value

\* the test of _parse_data compared with the headline as it is
IsFiltered_CaseSensitive(raw_warn, filter) ==
    Contains(raw_warn.headline, <<"c", "o", "r", "o", "n", "a">>) /\ filter

\* "corona" in raw_warn.headline.lower() and self.corona_filter
IsFiltered(raw_warn, filter) ==
    Contains(Lower(raw_warn.headline), <<"c", "o", "r", "o", "n", "a">>) /\ filter

\* warn_obj of _parse_data
WarnObj(raw_warn) ==
    [id |-> raw_warn.id, headline |-> raw_warn.headline,
     sent |-> OrEmpty(raw_warn.sent), start |-> OrEmpty(raw_warn.start),
     expires |-> OrEmpty(raw_warn.expires)]

\* the inner loop of _parse_data over the warnings of one region
RECURSIVE WarningsForRegion(_, _)
WarningsForRegion(raw_warnings, filter) ==
    IF raw_warnings = <<>> THEN <<>>
    ELSE IF IsFiltered(Head(raw_warnings), filter)
         THEN WarningsForRegion(Tail(raw_warnings), filter)
         ELSE <<WarnObj(Head(raw_warnings))>>
                  \o WarningsForRegion(Tail(raw_warnings), filter)

\* NINADataUpdateCoordinator._parse_data
ParseData(warnings, filter) ==
    [region_id \in DOMAIN warnings |-> WarningsForRegion(warnings[region_id], filter)]

\* _async_update_data: the exception raised for an exception err of update
NinaUpdateRaisesType(err) == IF err = "ApiError" THEN "UpdateFailed" ELSE err

NinaInit ==
    /\ nina_pc = "none"
    /\ corona_filter = FALSE
    /\ nina_warnings = <<>>
    /\ nina_result = [raised |-> "None", type |-> "none", data |-> <<>>]

\* ---------------------------------------------- setup: values and helpers
\* the answers of DeviceInfo:1 GetInfo: a serial number or none, a model
\* name, an empty one or none, a software version or none
DeviceInfos ==
    { i \in UNION { [keys -> {"", "S1", "S2", "M1", "M2", "7.29"}] :
                      keys \in SUBSET {"NewSerialNumber", "NewModelName",
                                       "NewSoftwareVersion"} } :
        /\ "NewSerialNumber" \in DOMAIN i => i["NewSerialNumber"] \in {"S1", "S2"}
        /\ "NewModelName" \in DOMAIN i => i["NewModelName"] \in {"", "M1", "M2"}
        /\ "NewSoftwareVersion" \in DOMAIN i => i["NewSoftwareVersion"] = "7.29" }

\* the NewX_AVM-DE_Version of UserInterface1 GetInfo, None when absent
Versions == {NoneValue, "7.30"}

\* what the calls of setup may raise
SetupErrors == {"FritzConnectionException"}

\* the properties that guard their value
Accessors == {"unique_id", "mac", "model", "current_firmware"}

\* dict.get(key)
DictGet(dict, key) == IF key \in DOMAIN dict THEN dict[key] ELSE NoneValue

\* not value, for a str | None
Falsy(value) == value \in {NoneValue, ""}

\* if not value: raise ClassSetupMissing(); return value
Guarded(value) == IF Falsy(value) THEN "ClassSetupMissing" ELSE value

SetupInit ==
    /\ connection = FALSE
    /\ unique_id = NoneValue
    /\ model = NoneValue
    /\ current_firmware = NoneValue
    /\ latest_firmware = NoneValue
    /\ update_available = FALSE
    /\ info = <<>>
    /\ setup_pc = "idle"
    /\ setup_result = "none"
    /\ accessed = [name |-> "none", value |-> "none"]

\* ---------------------------------------------------------------- init
Init ==
    /\ devices = <<>>
    /\ options \in OptionValues
    /\ now = 0
    /\ is_stopping = FALSE
    /\ pc = "idle"
    /\ hosts = 0
    /\ known_host = NoHost
    /\ wan_calls = <<>>
    /\ new_device = FALSE
    /\ signals = <<>>
    /\ result = Outcome("none", "None", "None")
    /\ triggers = 0
    /\ cycles = 0
    /\ keys0 = {}
    /\ scanned = {}
    /\ scan_log = <<>>
    /\ prior_log = <<>>
    /\ prior_devices = <<>>
    /\ replay = "off"
    /\ swallowed = "None"
    /\ last_update_success = TRUE
    /\ NamInit
    /\ NinaInit
    /\ SetupInit

\* ---------------------------------------------------------------- actions
\* _async_update_data and scan_devices up to the call of _update_hosts_info
StartCycle ==
    /\ pc' = "fetch"
    /\ cycles' = cycles + 1
    /\ hosts' = 0
    /\ new_device' = FALSE
    /\ signals' = <<>>
    /\ result' = Outcome("running", "None", "None")
    /\ keys0' = DOMAIN devices
    /\ scanned' = {}
    /\ UNCHANGED <<devices, options, now, is_stopping, known_host, wan_calls>>

\* A trigger that starts a cycle whether or not one is in flight
RunCycle_Restarts ==
    /\ triggers < MaxTriggers
    /\ triggers' = triggers + 1
    /\ StartCycle

\* The scheduler fires: a cycle starts unless one is in flight, and then the
\* trigger is dropped.
RunCycle ==
    /\ triggers < MaxTriggers
    /\ triggers' = triggers + 1
    /\ IF pc = "idle" THEN StartCycle
       ELSE UNCHANGED <<devices, options, now, is_stopping, pc, hosts, known_host,
                        wan_calls, new_device, signals, result, cycles, keys0,
                        scanned>>

\* _update_hosts_info returns a host list of n entries.  The router chooses
\* the list and the loop reads each entry once, in order: the length is fixed
\* here and each entry is drawn when the loop reaches it.
UpdateHostsInfoReturns(n) ==
    /\ pc = "fetch"
    /\ hosts' = n
    /\ pc' = "loop"
    /\ UNCHANGED <<devices, options, now, is_stopping, known_host, wan_calls,
                   new_device, signals, result, triggers, cycles, keys0, scanned>>

UpdateHostsInfoOk == \E n \in 0..MaxHosts : UpdateHostsInfoReturns(n)

\* get_hosts_info raises ex and the host's shutdown is not looked at
UpdateHostsInfoExcept_RaisesWhenStopping(ex) ==
    /\ pc = "fetch"
    /\ Raise("HomeAssistantError", ex, "get_hosts_info") /\ hosts' = hosts
    /\ UNCHANGED <<devices, options, now, is_stopping, new_device, signals, triggers,
                   cycles, keys0, scanned>>

\* get_hosts_info raises ex and _update_hosts_info lets it through as it is
UpdateHostsInfoExcept_Unwrapped(ex) ==
    /\ pc = "fetch"
    /\ IF ~is_stopping
       THEN Raise(ex, "None", "get_hosts_info") /\ hosts' = hosts
       ELSE /\ pc' = "loop"
            /\ hosts' = 0
            /\ UNCHANGED <<result, known_host, wan_calls>>
    /\ UNCHANGED <<devices, options, now, is_stopping, new_device, signals, triggers,
                   cycles, keys0, scanned>>

\* get_hosts_info raises ex
UpdateHostsInfoExcept(ex) ==
    /\ pc = "fetch"
    /\ IF ~is_stopping
       THEN Raise("HomeAssistantError", ex, "get_hosts_info") /\ hosts' = hosts
       ELSE /\ pc' = "loop"
            /\ hosts' = 0
            /\ UNCHANGED <<result, known_host, wan_calls>>
    /\ UNCHANGED <<devices, options, now, is_stopping, new_device, signals, triggers,
                   cycles, keys0, scanned>>

UpdateHostsInfoRaises == \E ex \in ExcKinds : UpdateHostsInfoExcept(ex)

\* one iteration of the loop over the host list, entry h has no mac
ScanHostContinue(h) ==
    /\ pc = "loop"
    /\ hosts > 0
    /\ ~HasMac(h)
    /\ known_host' = h
    /\ wan_calls' = <<>>
    /\ hosts' = hosts - 1
    /\ UNCHANGED <<devices, options, now, is_stopping, pc, new_device, signals,
                   result, triggers, cycles, keys0, scanned>>

ScanHostSkip == \E h \in HostInfos : ScanHostContinue(h)

\* the iteration calling GetWANAccessByIP whether or not the entry has an ip
ScanHostWith_LooksUpAlways(h, wan_access) ==
    /\ pc = "loop"
    /\ hosts > 0
    /\ HasMac(h)
    /\ known_host' = h
    /\ wan_calls' = <<[ip |-> h.ip, answer |-> wan_access]>>
    /\ devices' = ApplyHost(devices, h, DevWanAccess(wan_access),
                            ConsiderHome(options), now)
    /\ new_device' = (new_device \/ h.mac \notin DOMAIN devices)
    /\ scanned' = scanned \cup {h.mac}
    /\ hosts' = hosts - 1
    /\ UNCHANGED <<options, now, is_stopping, pc, signals, result, triggers, cycles,
                   keys0>>

\* one iteration of the loop over the host list, entry h has a mac and
\* GetWANAccessByIP, when called, answers wan_access
ScanHostWith(h, wan_access) ==
    /\ pc = "loop"
    /\ hosts > 0
    /\ HasMac(h)
    /\ known_host' = h
    /\ IF h.ip # ""
       THEN /\ wan_calls' = <<[ip |-> h.ip, answer |-> wan_access]>>
            /\ devices' = ApplyHost(devices, h, DevWanAccess(wan_access),
                                    ConsiderHome(options), now)
       ELSE /\ wan_calls' = <<>>
            /\ devices' = ApplyHost(devices, h, TRUE, ConsiderHome(options), now)
    /\ new_device' = (new_device \/ h.mac \notin DOMAIN devices)
    /\ scanned' = scanned \cup {h.mac}
    /\ hosts' = hosts - 1
    /\ UNCHANGED <<options, now, is_stopping, pc, signals, result, triggers, cycles,
                   keys0>>

ScanHost ==
    \E h \in HostInfos :
       \E wan_access \in (IF "ip" \in DOMAIN h /\ h.ip # "" THEN WanAccessResults ELSE {{}}) :
          ScanHostWith(h, wan_access)

\* GetWANAccessByIP raises ex and the records the cycle created are dropped
ScanHostExcept_RollsBack(ex) ==
    /\ pc = "loop"
    /\ hosts > 0
    /\ \E h \in HostInfos : HasMac(h) /\ h.ip # ""
    /\ Raise(ex, "None", "GetWANAccessByIP")
    /\ devices' = [m \in DOMAIN devices \cap keys0 |-> devices[m]]
    /\ UNCHANGED <<options, now, is_stopping, hosts, new_device, signals,
                   triggers, cycles, keys0, scanned>>

\* one iteration of the loop over the host list, GetWANAccessByIP raises ex
\* for an entry that has a mac and an ip
ScanHostExcept(ex) ==
    /\ pc = "loop"
    /\ hosts > 0
    /\ \E h \in HostInfos : HasMac(h) /\ h.ip # ""
    /\ Raise(ex, "None", "GetWANAccessByIP")
    /\ UNCHANGED <<devices, options, now, is_stopping, hosts, new_device, signals,
                   triggers, cycles, keys0, scanned>>

ScanHostRaises == \E ex \in ExcKinds : ScanHostExcept(ex)

\* the end of the loop announcing a new device ahead of the update
SignalUpdate_NewFirst ==
    /\ pc = "loop"
    /\ hosts = 0
    /\ signals' = Append(signals, IF new_device THEN "device_new" ELSE "device_update")
    /\ pc' = IF new_device THEN "signal_new" ELSE "device_info"
    /\ known_host' = NoHost
    /\ wan_calls' = <<>>
    /\ UNCHANGED <<devices, options, now, is_stopping, hosts, new_device, result,
                   triggers, cycles, keys0, scanned>>

\* the end of the loop announcing a new device whether or not one was created
SignalUpdate_AlwaysNew ==
    /\ pc = "loop"
    /\ hosts = 0
    /\ signals' = Append(signals, "device_update")
    /\ pc' = "signal_new"
    /\ known_host' = NoHost
    /\ wan_calls' = <<>>
    /\ UNCHANGED <<devices, options, now, is_stopping, hosts, new_device, result,
                   triggers, cycles, keys0, scanned>>

\* the loop is over: dispatcher_send(signal_device_update)
SignalUpdate ==
    /\ pc = "loop"
    /\ hosts = 0
    /\ signals' = Append(signals, "device_update")
    /\ pc' = IF new_device THEN "signal_new" ELSE "device_info"
    /\ known_host' = NoHost
    /\ wan_calls' = <<>>
    /\ UNCHANGED <<devices, options, now, is_stopping, hosts, new_device, result,
                   triggers, cycles, keys0, scanned>>

\* dispatcher_send(signal_device_new)
SignalNew ==
    /\ pc = "signal_new"
    /\ signals' = Append(signals, "device_new")
    /\ pc' = "device_info"
    /\ UNCHANGED <<devices, options, now, is_stopping, hosts, known_host, wan_calls,
                   new_device, result, triggers, cycles, keys0, scanned>>

\* _update_device_info at the end of scan_devices returns
UpdateDeviceInfoOk ==
    /\ pc = "device_info"
    /\ pc' = "idle"
    /\ result' = Outcome("ok", "None", "None")
    /\ UNCHANGED <<devices, options, now, is_stopping, hosts, known_host, wan_calls,
                   new_device, signals, triggers, cycles, keys0, scanned>>

\* _update_device_info at the end of scan_devices raises
UpdateDeviceInfoRaises ==
    /\ pc = "device_info"
    /\ \E ex \in ExcKinds : Raise(ex, "None", "UserInterface1")
    /\ UNCHANGED <<devices, options, now, is_stopping, hosts, new_device, signals,
                   triggers, cycles, keys0, scanned>>

\* time passes
Tick ==
    /\ now < MaxTicks * TickSeconds
    /\ now' = now + TickSeconds
    /\ UNCHANGED <<devices, options, is_stopping, pc, hosts, known_host, wan_calls,
                   new_device, signals, result, triggers, cycles, keys0, scanned>>

\* the host begins to shut down
Stop ==
    /\ ~is_stopping
    /\ is_stopping' = TRUE
    /\ UNCHANGED <<devices, options, now, pc, hosts, known_host, wan_calls,
                   new_device, signals, result, triggers, cycles, keys0, scanned>>

Next ==
    \/ RunCycle /\ UNCHANGED <<replayVars, coordVars, otherVars>>
    \/ UpdateHostsInfoOk /\ UNCHANGED <<replayVars, coordVars, otherVars>>
    \/ UpdateHostsInfoRaises /\ UNCHANGED <<replayVars, coordVars, otherVars>>
    \/ ScanHostSkip /\ UNCHANGED <<replayVars, coordVars, otherVars>>
    \/ ScanHost /\ UNCHANGED <<replayVars, coordVars, otherVars>>
    \/ ScanHostRaises /\ UNCHANGED <<replayVars, coordVars, otherVars>>
    \/ SignalUpdate /\ UNCHANGED <<replayVars, coordVars, otherVars>>
    \/ SignalNew /\ UNCHANGED <<replayVars, coordVars, otherVars>>
    \/ UpdateDeviceInfoOk /\ UNCHANGED <<replayVars, coordVars, otherVars>>
    \/ UpdateDeviceInfoRaises /\ UNCHANGED <<replayVars, coordVars, otherVars>>
    \/ Tick /\ UNCHANGED <<replayVars, coordVars, otherVars>>
    \/ Stop /\ UNCHANGED <<replayVars, coordVars, otherVars>>

Spec == Init /\ [][Next]_vars

\* ------------------------------------------------- scans applied again
\* Cycles that run to their end: cycles fed a fresh host list, then one whose
\* observations are recorded (replay = "first"), then cycles fed the
\* observations of the cycle before, the same entries with the same
\* WAN-access answers (replay = "again"), at whatever times the clock gives.

\* the entries with a mac that are fed again; the name of an entry has no
\* part in connected, ip_address and wan_access
RepeatHostInfos == {h \in HostInfos : HasMac(h) /\ h.name = <<>>}

\* a cycle starts in the given mode
RepeatStart(mode) ==
    /\ pc = "idle"
    /\ CASE mode = "off" -> replay = "off" /\ cycles < MaxRepeatCycles - 2
         [] mode = "first" -> replay = "off" /\ cycles < MaxRepeatCycles - 1
         [] mode = "again" -> replay # "off" /\ cycles < MaxRepeatCycles
    /\ StartCycle
    /\ replay' = mode
    /\ prior_log' = IF mode = "again" THEN scan_log ELSE <<>>
    /\ prior_devices' = IF mode = "again" THEN devices ELSE <<>>
    /\ scan_log' = <<>>
    /\ UNCHANGED <<triggers, coordVars, otherVars>>

RepeatRunCycle == \E mode \in {"off", "first", "again"} : RepeatStart(mode)

RepeatUpdateHostsInfo ==
    /\ \E n \in 0..MaxHosts :
          /\ replay = "again" => n = Len(prior_log)
          /\ UpdateHostsInfoReturns(n)
    /\ UNCHANGED <<replayVars, coordVars, otherVars>>

RepeatScanHost ==
    /\ pc = "loop"
    /\ hosts > 0
    /\ \E h \in RepeatHostInfos :
          \E wan_access \in (IF h.ip # "" THEN WanAccessResults ELSE {{}}) :
             LET dev_wan_access == IF h.ip # "" THEN DevWanAccess(wan_access) ELSE TRUE
                 k == Len(scan_log) + 1
             IN  /\ replay = "again" => /\ h = prior_log[k].host
                                        /\ dev_wan_access = prior_log[k].dev_wan_access
                 /\ ScanHostWith(h, wan_access)
                 /\ scan_log' = IF replay = "off" THEN scan_log
                                ELSE Append(scan_log, [host |-> h,
                                                       dev_wan_access |-> dev_wan_access,
                                                       utc |-> now])
    /\ UNCHANGED <<prior_log, prior_devices, replay, coordVars, otherVars>>

NextRepeat ==
    \/ RepeatRunCycle
    \/ RepeatUpdateHostsInfo
    \/ RepeatScanHost
    \/ SignalUpdate /\ UNCHANGED <<replayVars, coordVars, otherVars>>
    \/ SignalNew /\ UNCHANGED <<replayVars, coordVars, otherVars>>
    \/ UpdateDeviceInfoOk /\ UNCHANGED <<replayVars, coordVars, otherVars>>
    \/ Tick /\ UNCHANGED <<replayVars, coordVars, otherVars>>

SpecRepeat == Init /\ [][NextRepeat]_vars

\* ------------------------------------------- cycles as the scheduler sees them
\* The same cycles, followed by the scheduler that runs them: a cycle that
\* ends without raising makes the coordinator available, one that raises
\* makes it unavailable until a later cycle succeeds.

\* the end of a cycle sets last_update_success
Refreshed ==
    last_update_success' =
        IF pc # "idle" /\ pc' = "idle" THEN result'.type = "ok"
        ELSE last_update_success

CoordRunCycle ==
    /\ RunCycle
    /\ swallowed' = IF pc = "idle" THEN "None" ELSE swallowed
    /\ Refreshed

CoordUpdateHostsInfoRaises ==
    \E ex \in ExcKinds :
       /\ UpdateHostsInfoExcept(ex)
       /\ swallowed' = IF is_stopping THEN ex ELSE swallowed
       /\ Refreshed

NextCoord ==
    \/ CoordRunCycle /\ UNCHANGED <<replayVars, otherVars>>
    \/ CoordUpdateHostsInfoRaises /\ UNCHANGED <<replayVars, otherVars>>
    \/ UpdateHostsInfoOk /\ Refreshed /\ UNCHANGED <<swallowed, replayVars, otherVars>>
    \/ ScanHostSkip /\ Refreshed /\ UNCHANGED <<swallowed, replayVars, otherVars>>
    \/ ScanHost /\ Refreshed /\ UNCHANGED <<swallowed, replayVars, otherVars>>
    \/ ScanHostRaises /\ Refreshed /\ UNCHANGED <<swallowed, replayVars, otherVars>>
    \/ SignalUpdate /\ Refreshed /\ UNCHANGED <<swallowed, replayVars, otherVars>>
    \/ SignalNew /\ Refreshed /\ UNCHANGED <<swallowed, replayVars, otherVars>>
    \/ UpdateDeviceInfoOk /\ Refreshed /\ UNCHANGED <<swallowed, replayVars, otherVars>>
    \/ UpdateDeviceInfoRaises /\ Refreshed /\ UNCHANGED <<swallowed, replayVars, otherVars>>
    \/ Tick /\ Refreshed /\ UNCHANGED <<swallowed, replayVars, otherVars>>
    \/ Stop /\ Refreshed /\ UNCHANGED <<swallowed, replayVars, otherVars>>

SpecCoord == Init /\ [][NextCoord]_vars

\* ---------------------------------------------------------- nam: actions
\* An older version of the integration left an air_quality entity of the
\* entry in the entity registry.
NamLegacyEntity(e, t) ==
    /\ nam_pc[e] = "not_loaded"
    /\ nam_result[e].call = "none"
    /\ <<e, t>> \notin ent_reg
    /\ ent_reg' = ent_reg \cup {<<e, t>>}
    /\ UNCHANGED <<hass_data, nam_pc, nam_result, nam_update>>

\* async_setup_entry is called for the entry
NamSetupStart(e) ==
    /\ nam_pc[e] = "not_loaded"
    /\ nam_pc' = [nam_pc EXCEPT ![e] = "create"]
    /\ nam_result' = [nam_result EXCEPT ![e] = [call |-> "setup", raised |-> "None", value |-> "running"]]
    /\ UNCHANGED <<hass_data, nam_update, ent_reg>>

\* NettigoAirMonitor.create returns
NamCreateOk(e) ==
    /\ nam_pc[e] = "create"
    /\ nam_pc' = [nam_pc EXCEPT ![e] = "first_refresh"]
    /\ UNCHANGED <<hass_data, nam_result, nam_update, ent_reg>>

\* NettigoAirMonitor.create raises err as if it were any other error
NamCreateFails_AllNotReady(e, err) ==
    /\ nam_pc[e] = "create"
    /\ nam_pc' = [nam_pc EXCEPT ![e] = "not_loaded"]
    /\ nam_result' = [nam_result EXCEPT ![e] =
                          [call |-> "setup", raised |-> err,
                           value |-> "ConfigEntryNotReady"]]
    /\ UNCHANGED <<hass_data, nam_update, ent_reg>>

\* NettigoAirMonitor.create raises err
NamCreateFails(e, err) ==
    /\ nam_pc[e] = "create"
    /\ nam_pc' = [nam_pc EXCEPT ![e] = "not_loaded"]
    /\ nam_result' = [nam_result EXCEPT ![e] =
                          [call |-> "setup", raised |-> err,
                           value |-> NamSetupRaises(err)]]
    /\ UNCHANGED <<hass_data, nam_update, ent_reg>>

\* the coordinator stored before its first refresh is awaited
NamFirstRefreshFails_StoredEarly(e, err) ==
    /\ nam_pc[e] = "first_refresh"
    /\ nam_pc' = [nam_pc EXCEPT ![e] = "not_loaded"]
    /\ hass_data' = NamStore(hass_data, e, [unique_id |-> e])
    /\ nam_result' = [nam_result EXCEPT ![e] = [call |-> "setup", raised |-> "None", value |-> err]]
    /\ UNCHANGED <<nam_update, ent_reg>>

\* coordinator.async_config_entry_first_refresh raises err
NamFirstRefreshFails(e, err) ==
    /\ nam_pc[e] = "first_refresh"
    /\ nam_pc' = [nam_pc EXCEPT ![e] = "not_loaded"]
    /\ nam_result' = [nam_result EXCEPT ![e] = [call |-> "setup", raised |-> "None", value |-> err]]
    /\ UNCHANGED <<hass_data, nam_update, ent_reg>>

\* coordinator.async_config_entry_first_refresh returns: the coordinator is
\* stored, the platforms are set up, the deprecated air_quality entities of
\* the coordinator are removed and async_setup_entry returns True
NamFirstRefreshOk(e) ==
    /\ nam_pc[e] = "first_refresh"
    /\ nam_pc' = [nam_pc EXCEPT ![e] = "loaded"]
    /\ hass_data' = NamStore(hass_data, e, [unique_id |-> e])
    /\ ent_reg' = ent_reg \ {<<e, t>> : t \in DeprecatedSensorTypes}
    /\ nam_result' = [nam_result EXCEPT ![e] = [call |-> "setup", raised |-> "None", value |-> "True"]]
    /\ UNCHANGED nam_update

\* async_unload_entry popping the coordinator whatever the platforms answered
NamUnload_PopsAlways(e, unload_ok) ==
    /\ nam_pc[e] = "loaded"
    /\ hass_data' = NamPop(hass_data, e)
    /\ nam_pc' = [nam_pc EXCEPT ![e] = IF unload_ok THEN "not_loaded" ELSE "loaded"]
    /\ nam_result' = [nam_result EXCEPT ![e] =
                          [call |-> "unload", raised |-> "None",
                           value |-> IF unload_ok THEN "True" ELSE "False"]]
    /\ UNCHANGED <<nam_update, ent_reg>>

\* async_unload_entry, async_unload_platforms answering unload_ok
NamUnload(e, unload_ok) ==
    /\ nam_pc[e] = "loaded"
    /\ IF unload_ok
       THEN /\ hass_data' = NamPop(hass_data, e)
            /\ nam_pc' = [nam_pc EXCEPT ![e] = "not_loaded"]
       ELSE UNCHANGED <<hass_data, nam_pc>>
    /\ nam_result' = [nam_result EXCEPT ![e] =
                          [call |-> "unload", raised |-> "None",
                           value |-> IF unload_ok THEN "True" ELSE "False"]]
    /\ UNCHANGED <<nam_update, ent_reg>>

\* NAMDataUpdateCoordinator._async_update_data of a loaded entry;
\* nam.async_update returns (err = "None") or raises err
NamUpdate(e, err) ==
    /\ nam_pc[e] = "loaded"
    /\ nam_update' = [nam_update EXCEPT ![e] =
                          IF err = "None" THEN "data" ELSE NamUpdateRaises(err)]
    /\ UNCHANGED <<hass_data, nam_pc, nam_result, ent_reg>>

NextNam ==
    \/ \E e \in Entries, t \in {"sds", "sps30"} :
          NamLegacyEntity(e, t) /\ UNCHANGED <<fritzVars, replayVars, coordVars, ninaVars, setupVars>>
    \/ \E e \in Entries : NamSetupStart(e) /\ UNCHANGED <<fritzVars, replayVars, coordVars, ninaVars, setupVars>>
    \/ \E e \in Entries : NamCreateOk(e) /\ UNCHANGED <<fritzVars, replayVars, coordVars, ninaVars, setupVars>>
    \/ \E e \in Entries, err \in NamCreateErrors :
          NamCreateFails(e, err) /\ UNCHANGED <<fritzVars, replayVars, coordVars, ninaVars, setupVars>>
    \/ \E e \in Entries : NamFirstRefreshOk(e) /\ UNCHANGED <<fritzVars, replayVars, coordVars, ninaVars, setupVars>>
    \/ \E e \in Entries, err \in FirstRefreshErrors :
          NamFirstRefreshFails(e, err) /\ UNCHANGED <<fritzVars, replayVars, coordVars, ninaVars, setupVars>>
    \/ \E e \in Entries, unload_ok \in BOOLEAN :
          NamUnload(e, unload_ok) /\ UNCHANGED <<fritzVars, replayVars, coordVars, ninaVars, setupVars>>
    \/ \E e \in Entries, err \in NamUpdateErrors \cup {"None"} :
          NamUpdate(e, err) /\ UNCHANGED <<fritzVars, replayVars, coordVars, ninaVars, setupVars>>

SpecNam == Init /\ [][NextNam]_vars

\* --------------------------------------------------------- nina: actions
\* NINADataUpdateCoordinator.__init__
NinaConstruct(filter) ==
    /\ nina_pc = "none"
    /\ nina_pc' = "idle"
    /\ corona_filter' = filter
    /\ UNCHANGED <<nina_warnings, nina_result>>

\* _async_update_data is called and self._nina.update() starts to fill
\* its warnings anew
NinaUpdateStart ==
    /\ nina_pc = "idle"
    /\ nina_pc' = "fetching"
    /\ nina_warnings' = <<>>
    /\ nina_result' = [raised |-> "None", type |-> "none", data |-> <<>>]
    /\ UNCHANGED corona_filter

\* self._nina.update() has an answer for a region
NinaFetchRegion(region_id) ==
    /\ nina_pc = "fetching"
    /\ region_id \notin DOMAIN nina_warnings
    /\ nina_warnings' = [r \in DOMAIN nina_warnings \cup {region_id} |->
                            IF r = region_id THEN <<>> ELSE nina_warnings[r]]
    /\ UNCHANGED <<nina_pc, corona_filter, nina_result>>

\* self._nina.update() reads one more warning of a region
NinaFetchWarning(region_id, raw_warn) ==
    /\ nina_pc = "fetching"
    /\ region_id \in DOMAIN nina_warnings
    /\ Len(nina_warnings[region_id]) < MaxWarnings
    /\ nina_warnings' = [nina_warnings EXCEPT ![region_id] = Append(@, raw_warn)]
    /\ UNCHANGED <<nina_pc, corona_filter, nina_result>>

\* self._nina.update() returns and _async_update_data returns _parse_data()
NinaUpdateReturns ==
    /\ nina_pc = "fetching"
    /\ nina_pc' = "idle"
    /\ nina_result' = [raised |-> "None", type |-> "ok",
                       data |-> ParseData(nina_warnings, corona_filter)]
    /\ UNCHANGED <<corona_filter, nina_warnings>>

\* self._nina.update() raises err
NinaUpdateRaises(err) ==
    /\ nina_pc = "fetching"
    /\ nina_pc' = "idle"
    /\ nina_result' = [raised |-> err, type |-> NinaUpdateRaisesType(err), data |-> <<>>]
    /\ UNCHANGED <<corona_filter, nina_warnings>>

NextNina ==
    \/ \E filter \in BOOLEAN :
          NinaConstruct(filter) /\ UNCHANGED <<fritzVars, replayVars, coordVars, namVars, setupVars>>
    \/ NinaUpdateStart /\ UNCHANGED <<fritzVars, replayVars, coordVars, namVars, setupVars>>
    \/ \E region_id \in Regions :
          NinaFetchRegion(region_id) /\ UNCHANGED <<fritzVars, replayVars, coordVars, namVars, setupVars>>
    \/ \E region_id \in Regions, raw_warn \in RawWarnings :
          NinaFetchWarning(region_id, raw_warn)
            /\ UNCHANGED <<fritzVars, replayVars, coordVars, namVars, setupVars>>
    \/ NinaUpdateReturns /\ UNCHANGED <<fritzVars, replayVars, coordVars, namVars, setupVars>>
    \/ \E err \in NinaUpdateErrors :
          NinaUpdateRaises(err) /\ UNCHANGED <<fritzVars, replayVars, coordVars, namVars, setupVars>>

SpecNina == Init /\ [][NextNina]_vars

\* -------------------------------------------------------- setup: actions
\* setup: FritzConnection(...) returns; an instance is never falsy, so the
\* early return under `if not self.connection` is not taken
SetupConnect ==
    /\ setup_pc = "idle"
    /\ setup_pc' = "info"
    /\ connection' = TRUE
    /\ setup_result' = "running"
    /\ UNCHANGED <<unique_id, model, current_firmware, latest_firmware,
                   update_available, info, accessed>>

\* setup: FritzConnection(...) raises
SetupConnectRaises(ex) ==
    /\ setup_pc = "idle"
    /\ setup_result' = ex
    /\ UNCHANGED <<connection, unique_id, model, current_firmware, latest_firmware,
                   update_available, info, setup_pc, accessed>>

\* setup: DeviceInfo:1 GetInfo answers and the identity is read from it;
\* info["NewSerialNumber"] raises KeyError when the key is missing
SetupGetInfo(answer) ==
    /\ setup_pc = "info"
    /\ info' = answer
    /\ IF Falsy(unique_id) /\ "NewSerialNumber" \notin DOMAIN answer
       THEN /\ setup_pc' = "idle"
            /\ setup_result' = "KeyError"
            /\ UNCHANGED <<unique_id, model, current_firmware>>
       ELSE /\ unique_id' = IF Falsy(unique_id) THEN answer["NewSerialNumber"]
                                                ELSE unique_id
            /\ model' = DictGet(answer, "NewModelName")
            /\ current_firmware' = DictGet(answer, "NewSoftwareVersion")
            /\ setup_pc' = "device_info"
            /\ UNCHANGED setup_result
    /\ UNCHANGED <<connection, latest_firmware, update_available, accessed>>

\* setup: DeviceInfo:1 GetInfo raises
SetupGetInfoRaises(ex) ==
    /\ setup_pc = "info"
    /\ setup_pc' = "idle"
    /\ setup_result' = ex
    /\ UNCHANGED <<connection, unique_id, model, current_firmware, latest_firmware,
                   update_available, info, accessed>>

\* setup: _update_device_info returns and setup ends
SetupUpdateDeviceInfo(version) ==
    /\ setup_pc = "device_info"
    /\ setup_pc' = "idle"
    /\ update_available' = ~Falsy(version)
    /\ latest_firmware' = version
    /\ setup_result' = "ok"
    /\ UNCHANGED <<connection, unique_id, model, current_firmware, info, accessed>>

\* setup: _update_device_info raises
SetupUpdateDeviceInfoRaises(ex) ==
    /\ setup_pc = "device_info"
    /\ setup_pc' = "idle"
    /\ setup_result' = ex
    /\ UNCHANGED <<connection, unique_id, model, current_firmware, latest_firmware,
                   update_available, info, accessed>>

\* one of the properties unique_id, mac, model, current_firmware is read
Access(name) ==
    /\ setup_pc = "idle"
    /\ accessed' = [name |-> name,
                    value |-> CASE name = "unique_id" -> Guarded(unique_id)
                                [] name = "mac" -> Guarded(unique_id)
                                [] name = "model" -> Guarded(model)
                                [] name = "current_firmware" -> Guarded(current_firmware)]
    /\ UNCHANGED <<connection, unique_id, model, current_firmware, latest_firmware,
                   update_available, info, setup_pc, setup_result>>

NextSetup ==
    \/ SetupConnect /\ UNCHANGED <<fritzVars, replayVars, coordVars, namVars, ninaVars>>
    \/ \E ex \in SetupErrors :
          SetupConnectRaises(ex)
            /\ UNCHANGED <<fritzVars, replayVars, coordVars, namVars, ninaVars>>
    \/ \E answer \in DeviceInfos :
          SetupGetInfo(answer)
            /\ UNCHANGED <<fritzVars, replayVars, coordVars, namVars, ninaVars>>
    \/ \E ex \in SetupErrors :
          SetupGetInfoRaises(ex)
            /\ UNCHANGED <<fritzVars, replayVars, coordVars, namVars, ninaVars>>
    \/ \E version \in Versions :
          SetupUpdateDeviceInfo(version)
            /\ UNCHANGED <<fritzVars, replayVars, coordVars, namVars, ninaVars>>
    \/ \E ex \in SetupErrors :
          SetupUpdateDeviceInfoRaises(ex)
            /\ UNCHANGED <<fritzVars, replayVars, coordVars, namVars, ninaVars>>
    \/ \E name \in Accessors :
          Access(name) /\ UNCHANGED <<fritzVars, replayVars, coordVars, namVars, ninaVars>>

SpecSetup == Init /\ [][NextSetup]_vars

\* ---------------------------------------------------------------- claims
\* This step is one iteration of the loop of scan_devices over an entry that
\* carries a mac: the record under that mac is created or updated.
Updates == pc = "loop" /\ hosts' = hosts - 1 /\ known_host' # NoHost
              /\ "mac" \in DOMAIN known_host' /\ known_host'.mac # <<>>

\* C1: whenever FritzDevice.update runs for an entry reported active
\* (status true), the record afterwards is connected and its last_activity is
\* the time of that poll, whatever the record was before and whatever
\* consider_home is.
C1_ActiveIsConnectedAndStamped ==
    [][(Updates /\ known_host'.status)
          => /\ known_host'.mac \in DOMAIN devices'
             /\ devices'[known_host'.mac].connected
             /\ devices'[known_host'.mac].last_activity = now]_vars

\* C1 witness: a record that existed before the cycle, last seen active
\* earlier, has just been updated from an active entry at a later time.
C1_Witness ==
    /\ pc = "loop" /\ HasMac(known_host) /\ known_host.status
    /\ known_host.mac \in keys0
    /\ now > 0
    /\ devices[known_host.mac].last_activity = now
    /\ devices[known_host.mac].connected

\* C2: an update from an entry reported inactive, of a record whose
\* last_activity is t0, at time t1, leaves the record connected exactly when
\* t1 - t0 < consider_home (connected when inside the window, disconnected
\* from t1 - t0 = consider_home on).
C2_InactiveFollowsGraceWindow ==
    [][(Updates /\ ~known_host'.status
          /\ known_host'.mac \in DOMAIN devices
          /\ devices[known_host'.mac].last_activity # NoTime)
          => (devices'[known_host'.mac].connected
                 <=> (now - devices[known_host'.mac].last_activity
                         < ConsiderHome(options)))]_vars

\* C2 witness: with the default window of 180 s a record last active at 0 has
\* been updated from an inactive entry at 200 and is disconnected.
C2_Witness ==
    /\ pc = "loop" /\ HasMac(known_host) /\ ~known_host.status
    /\ options = {}
    /\ devices[known_host.mac].last_activity = 0
    /\ now = 2 * TickSeconds
    /\ ~devices[known_host.mac].connected

\* C3: when get_hosts_info raises FritzSecurityError or
\* FritzConnectionException while the host is not stopping, the cycle ends by
\* raising UpdateFailed and the registry is what it was when the cycle
\* started.
C3_TransientFetchRaisesUpdateFailed ==
    [][(pc = "fetch" /\ pc' = "idle" /\ ~is_stopping
          /\ result'.origin = "get_hosts_info"
          /\ result'.cause \in {"FritzSecurityError", "FritzConnectionException"})
          => /\ result'.type = "UpdateFailed"
             /\ devices' = devices
             /\ DOMAIN devices' = keys0]_vars

C5_KeysOnlyGrow == [][DOMAIN devices \subseteq DOMAIN devices']_vars

\* C5 witness: a second cycle has ended, failed or during shutdown, without
\* having iterated a key that was in the registry before it; the key is there.
C5_Witness ==
    /\ cycles = 2 /\ pc = "idle"
    /\ result.type # "ok" \/ is_stopping
    /\ \E m \in keys0 : m \notin scanned /\ m \in DOMAIN devices

\* C6: a record changes only in the loop iteration over an entry that carries
\* its key; every other step, and every iteration over another entry, leaves
\* all its fields as they were.
C6_OtherRecordsUnchanged ==
    [][\A m \in DOMAIN devices :
          \/ Updates /\ known_host'.mac = m
          \/ m \in DOMAIN devices' /\ devices'[m] = devices[m]]_vars

\* C6 witness: a scan that iterated another device is over; a record from
\* before the cycle, absent from the scan, is still connected although its
\* grace window has elapsed.
C6_Witness ==
    /\ pc = "device_info"
    /\ scanned # {}
    /\ \E m \in keys0 :
          /\ m \notin scanned
          /\ devices[m].connected
          /\ now - devices[m].last_activity >= ConsiderHome(options)

\* the cycle was fed the scan of the cycle before and has applied all of it
Replayed ==
    /\ replay = "again" /\ pc # "fetch" /\ hosts = 0
    /\ Len(scan_log) = Len(prior_log)

\* the clock reads of a log's updates of the record under mac m
ReadsOf(log, m) == {log[i].utc : i \in {j \in DOMAIN log : log[j].host.mac = m}}

\* No poll time of the two applications crosses the grace boundary of the
\* record under m as the first application left it: the record is inside the
\* window at all the clock reads of its updates, or outside at all of them.
NoCross(m) ==
    LET last_activity == prior_devices[m].last_activity
        reads == ReadsOf(prior_log, m) \cup ReadsOf(scan_log, m)
    IN  last_activity # NoTime
           => \A t1 \in reads, t2 \in reads :
                 (t1 - last_activity < ConsiderHome(options))
                    <=> (t2 - last_activity < ConsiderHome(options))

\* C7: when a scan is applied a second time, every record whose grace
\* boundary the poll times do not cross has after the second application the
\* connected, ip_address and wan_access it had after the first.
C7_SecondApplicationChangesNothing ==
    Replayed
       => \A m \in DOMAIN prior_devices :
             NoCross(m)
                => /\ devices[m].connected = prior_devices[m].connected
                   /\ devices[m].ip_address = prior_devices[m].ip_address
                   /\ devices[m].wan_access = prior_devices[m].wan_access

\* C7 witness: a scan reporting a known device inactive was applied at one
\* time and again later, inside the grace window both times; the record is
\* connected.
C7_Witness ==
    /\ Replayed /\ pc = "device_info"
    /\ \E m \in DOMAIN prior_devices :
          /\ ReadsOf(scan_log, m) # {}
          /\ \A i \in DOMAIN scan_log : ~scan_log[i].host.status
          /\ \A t1 \in ReadsOf(prior_log, m), t2 \in ReadsOf(scan_log, m) : t1 < t2
          /\ NoCross(m)
          /\ prior_devices[m].connected /\ devices[m].connected

\* C8: a signal is sent only when the loop over the host list is over, the
\* signals of a cycle are device_update and then, if any, device_new, and
\* once a signal of a cycle is sent the registry does not change in that cycle.
C8_SignalsOrderedAfterUpdates ==
    [][/\ (signals' # signals /\ signals' # <<>>)
             => /\ hosts = 0 /\ pc \in {"loop", "signal_new"}
                /\ devices' = devices
                /\ signals' \in {<<"device_update">>, <<"device_update", "device_new">>}
       /\ (signals # <<>> /\ cycles' = cycles) => devices' = devices]_vars

\* C8 witness: a cycle that updated one record and inserted another has sent
\* device_update and then device_new.
C8_Witness ==
    /\ signals = <<"device_update", "device_new">>
    /\ keys0 = {Mac1}
    /\ scanned = {Mac1, Mac2}
    /\ DOMAIN devices = {Mac1, Mac2}

\* the number of times signal s was sent by the cycle
Sent(s) == Cardinality({i \in DOMAIN signals : signals[i] = s})

\* C9 as stated: every cycle that has ended sent device_update exactly once,
\* and sent device_new exactly when it created a record.
C9_EveryCycleSignalsUpdate ==
    (pc = "idle" /\ cycles > 0)
        => /\ Sent("device_update") = 1
           /\ Sent("device_new") > 0 <=> DOMAIN devices # keys0

\* the cycle in flight (or the last one) has left the loop over the host list
LoopCompleted ==
    \/ pc \in {"signal_new", "device_info"}
    \/ pc = "idle" /\ cycles > 0
          /\ result.origin \notin {"get_hosts_info", "GetWANAccessByIP"}

\* C9 amended: a cycle that completed the loop over the host list sent
\* device_update exactly once, and, once past the signals, sent device_new
\* once if it created a record and not at all if it created none; a cycle
\* ended by an exception of the fetch or of a WAN-access lookup sent nothing.
C9_CompletedLoopSignals ==
    /\ LoopCompleted => Sent("device_update") = 1
    /\ (LoopCompleted /\ pc # "signal_new")
          => Sent("device_new") = (IF DOMAIN devices # keys0 THEN 1 ELSE 0)
    /\ (pc = "idle" /\ cycles > 0 /\ ~LoopCompleted) => signals = <<>>

\* C9 witness: a cycle whose entries all carried keys the registry already
\* had has ended having sent device_update alone.
C9_Witness ==
    /\ pc = "idle" /\ result.type = "ok"
    /\ scanned # {} /\ scanned \subseteq keys0
    /\ signals = <<"device_update">>

\* C10: a loop iteration over an entry whose mac is missing or empty changes
\* no record, creates none, calls no WAN-access lookup and does not set
\* new_device.
C10_NoMacIsSkipped ==
    [][(pc = "loop" /\ hosts' = hosts - 1
          /\ ("mac" \notin DOMAIN known_host' \/ known_host'.mac = <<>>))
          => /\ devices' = devices
             /\ wan_calls' = <<>>
             /\ new_device' = new_device]_vars

\* C10 witness: the last entry of a host list had an empty mac; the registry
\* has the keys it had when the cycle started and new_device is not set.
C10_Witness ==
    /\ pc = "loop" /\ hosts = 0
    /\ "mac" \in DOMAIN known_host /\ known_host.mac = <<>>
    /\ keys0 # {} /\ DOMAIN devices = keys0
    /\ ~new_device

\* C11: a loop iteration over an entry with a mac and an empty ip calls no
\* WAN-access lookup and leaves the record with wan_access true.
C11_EmptyIpGivesWanAccess ==
    [][(Updates /\ known_host'.ip = "")
          => /\ wan_calls' = <<>>
             /\ devices'[known_host'.mac].wan_access
             /\ devices'[known_host'.mac].ip_address = ""]_vars

\* C11 witness: a record from before the cycle has been updated from an
\* entry with an empty ip: no lookup was made and wan_access is true.
C11_Witness ==
    /\ pc = "loop" /\ HasMac(known_host) /\ known_host.ip = ""
    /\ known_host.mac \in keys0
    /\ wan_calls = <<>>
    /\ devices[known_host.mac].wan_access
    /\ devices[known_host.mac].ip_address = ""

\* C12: while the host is stopping the fetch of the host list never ends the
\* cycle: an exception it raises is dropped and the loop gets an empty list
\* (the registry and the outcome of the cycle are untouched by that step),
\* and the cycle that dropped it changes no record and does not end with an
\* error of the fetch.
C12_ShutdownSwallowsFetchError ==
    [][/\ (pc = "fetch" /\ is_stopping) => pc' # "idle"
       /\ (swallowed' # swallowed /\ swallowed' # "None")
             => /\ is_stopping
                /\ pc' = "loop" /\ hosts' = 0
                /\ devices' = devices /\ result' = result
       /\ (swallowed # "None" /\ cycles' = cycles)
             => /\ devices' = devices
                /\ result'.origin # "get_hosts_info"]_vars

\* C12 witness: during shutdown a cycle whose fetch raised
\* FritzConnectionException has ended without raising; it sent device_update
\* and the registry has the records it had.
C12_Witness ==
    /\ is_stopping /\ swallowed = "FritzConnectionException"
    /\ pc = "idle" /\ result.type = "ok"
    /\ signals = <<"device_update">>
    /\ keys0 # {} /\ DOMAIN devices = keys0

\* C13 as stated: when the fetch of the host list raises an exception outside
\* the transient set while the host is not stopping, the exception that
\* leaves the cycle is that same exception.
C13_FatalFetchPropagatesUnmodified ==
    [][(pc = "fetch" /\ pc' = "idle" /\ ~is_stopping
          /\ result'.origin = "get_hosts_info"
          /\ ~IsFritzException(result'.cause))
          => result'.type = result'.cause]_vars

\* C13 amended: when the fetch of the host list raises an exception outside
\* the transient set while the host is not stopping, the cycle ends by
\* raising HomeAssistantError with that exception as its cause (never
\* UpdateFailed), and the registry is unchanged.
C13_FatalFetchRaisesHomeAssistantError ==
    [][(pc = "fetch" /\ pc' = "idle" /\ ~is_stopping
          /\ result'.origin = "get_hosts_info"
          /\ ~IsFritzException(result'.cause))
          => /\ result'.type = "HomeAssistantError"
             /\ result'.cause \in ExcKinds
             /\ devices' = devices]_vars

\* C13 witness: a cycle over a registry with records has ended with
\* HomeAssistantError caused by the KeyError its fetch raised.
C13_Witness ==
    /\ pc = "idle" /\ ~is_stopping
    /\ result = Outcome("HomeAssistantError", "KeyError", "get_hosts_info")
    /\ devices # <<>>

\* C14: a cycle that has sent its signals ends without raising, whether the
\* refresh of the device info at its end returns or fails.
C14_DeviceInfoFailureNotPropagated ==
    [][(pc = "device_info" /\ pc' = "idle") => result'.type = "ok"]_vars

\* C15: no cycle ends by an error of a WAN-access lookup: a lookup that fails
\* is a no-op for its entry and the loop goes on.
C15_WanLookupFailureNotPropagated ==
    (pc = "idle" /\ cycles > 0) => result.origin # "GetWANAccessByIP"

\* C16: a cycle ended by an authentication error of the device
\* (FritzSecurityError) ends with a condition of its own, which is neither
\* the generic UpdateFailed nor the hard error of a failed fetch.
C16_AuthErrorIsDistinct ==
    (pc = "idle" /\ result.cause = "FritzSecurityError")
        => result.type \notin {"UpdateFailed", "HomeAssistantError"}

\* C17: after a failed cycle the next trigger starts a new cycle, and when
\* the fetch of that cycle succeeds the cycle ends with the coordinator
\* available again.
C17_FailedCycleIsNotTerminal ==
    [][/\ (pc = "idle" /\ ~last_update_success /\ triggers' # triggers)
             => (pc' = "fetch" /\ cycles' = cycles + 1)
       /\ (~last_update_success /\ pc # "idle" /\ pc' = "idle"
              /\ result'.origin # "get_hosts_info")
             => last_update_success']_vars

\* the wan access the iteration at hand resolved for its entry
ResolvedWanAccess ==
    IF wan_calls' = <<>> THEN TRUE ELSE DevWanAccess(wan_calls'[1].answer)

\* C18: every update leaves the record with the ip of the entry and the wan
\* access resolved for it, whether the entry is active or not and whether
\* the record is inside its grace window or not; the lookup, if any, was
\* made once and with the ip of the entry.
C18_IpAndWanAccessOverwritten ==
    [][Updates
          => /\ devices'[known_host'.mac].ip_address = known_host'.ip
             /\ devices'[known_host'.mac].wan_access = ResolvedWanAccess
             /\ Len(wan_calls') <= 1
             /\ wan_calls' # <<>> => wan_calls'[1].ip = known_host'.ip]_vars

\* C18 witness: a record from before the cycle, outside its grace window,
\* has been updated from an inactive entry with an ip whose lookup answered
\* NewDisallow: it is disconnected and has that ip and no wan access.
C18_Witness ==
    /\ pc = "loop" /\ HasMac(known_host) /\ ~known_host.status
    /\ known_host.mac \in keys0
    /\ known_host.ip = "10.0.0.2"
    /\ wan_calls = <<[ip |-> "10.0.0.2", answer |-> {<<"NewDisallow", TRUE>>}]>>
    /\ ~devices[known_host.mac].connected
    /\ devices[known_host.mac].last_activity # NoTime
    /\ devices[known_host.mac].ip_address = "10.0.0.2"
    /\ ~devices[known_host.mac].wan_access

\* C19: an update that creates a record gives it the name of the entry, or
\* the mac with ":" replaced by "_" when that name is empty; an update of an
\* existing record leaves its name as it is, whatever name the entry
\* carries; so every record has a non-empty name after its update.
C19_NameAdoptedOnceNeverChanged ==
    [][Updates
          => LET mac == known_host'.mac
             IN  /\ devices'[mac].name # <<>>
                 /\ mac \notin DOMAIN devices
                       => devices'[mac].name =
                             (IF known_host'.name # <<>> THEN known_host'.name
                              ELSE MacReplace(mac))
                 /\ mac \in DOMAIN devices
                       => devices'[mac].name = devices[mac].name]_vars

\* C19 witness: a record created from a nameless entry, named after its mac,
\* has been updated from an entry that carries a name and kept its own.
C19_Witness ==
    /\ pc = "loop" /\ HasMac(known_host)
    /\ known_host.mac = Mac1 /\ known_host.name = <<"p", "c">>
    /\ Mac1 \in keys0
    /\ devices[Mac1].name = <<"a", "_", "1">>

\* C20: last_activity changes only in an update from an active entry: an
\* update from an inactive entry leaves it as it was (unset for a new
\* record and for one never seen active, the same timestamp otherwise),
\* and no other step changes it.
C20_LastActivityOnlyWhenActive ==
    [][/\ (Updates /\ ~known_host'.status)
             => devices'[known_host'.mac].last_activity =
                   (IF known_host'.mac \in DOMAIN devices
                    THEN devices[known_host'.mac].last_activity ELSE NoTime)
       /\ \A m \in DOMAIN devices :
             devices'[m].last_activity # devices[m].last_activity
                => (Updates /\ known_host'.mac = m /\ known_host'.status)]_vars

\* C20 witness: a record last active at the first tick has been updated from
\* an inactive entry at the second tick and still carries the first.
C20_Witness ==
    /\ pc = "loop" /\ HasMac(known_host) /\ ~known_host.status
    /\ known_host.mac \in keys0
    /\ now = 2 * TickSeconds
    /\ devices[known_host.mac].last_activity = TickSeconds
    /\ devices[known_host.mac].connected

\* the exception a failed cycle is about: the one the router call raised
RaisedKind == IF result.cause # "None" THEN result.cause ELSE result.type

\* C21: whether a failed cycle ends with UpdateFailed depends on the kind of
\* the exception alone: it does exactly when the exception is
\* FritzSecurityError, FritzConnectionException or a subkind, whichever call
\* raised it and whatever happened before.
C21_ClassificationByKindAlone ==
    (pc = "idle" /\ result.type \notin {"none", "ok"})
        => (result.type = "UpdateFailed" <=> IsFritzException(RaisedKind))

\* C22: an update of a record never seen active (new, or with last_activity
\* unset) leaves it connected exactly when the entry is active; after an
\* inactive one it is disconnected with last_activity unset, whatever
\* consider_home is.
C22_NeverActiveFollowsStatus ==
    [][(Updates /\ (known_host'.mac \in DOMAIN devices
                      => devices[known_host'.mac].last_activity = NoTime))
          => /\ devices'[known_host'.mac].connected = known_host'.status
             /\ ~known_host'.status
                   => devices'[known_host'.mac].last_activity = NoTime]_vars

\* C22 witness: a record from an earlier cycle, never seen active, has been
\* updated from an inactive entry at a later time and is disconnected with
\* last_activity unset.
C22_Witness ==
    /\ pc = "loop" /\ HasMac(known_host) /\ ~known_host.status
    /\ known_host.mac \in keys0
    /\ now > 0
    /\ devices[known_host.mac].last_activity = NoTime
    /\ ~devices[known_host.mac].connected

\* C23: an iteration over an entry with a mac and an ip makes one
\* GetWANAccessByIP call, with that ip, and leaves the record with wan_access
\* false when the answer has NewDisallow set and true otherwise, the empty
\* answer included.
C23_WanAccessFromLookup ==
    [][(Updates /\ known_host'.ip # "")
          => /\ Len(wan_calls') = 1
             /\ wan_calls'[1].ip = known_host'.ip
             /\ devices'[known_host'.mac].wan_access
                   = (<<"NewDisallow", TRUE>> \notin wan_calls'[1].answer)]_vars

\* C23 witness: the lookup for an entry answered with an empty result and
\* the record, which existed before the cycle, has wan_access true.
C23_Witness ==
    /\ pc = "loop" /\ HasMac(known_host) /\ known_host.ip = "10.0.0.2"
    /\ known_host.mac \in keys0
    /\ wan_calls = <<[ip |-> "10.0.0.2", answer |-> {}]>>
    /\ devices[known_host.mac].wan_access
    /\ devices[known_host.mac].ip_address = "10.0.0.2"

\* C24: in NAM async_setup_entry an AuthFailed of the device creation is
\* raised as ConfigEntryAuthFailed, an ApiError, ClientError,
\* ClientConnectorError or timeout as ConfigEntryNotReady; the coordinator map
\* holds an entry only for a config entry whose creation and first refresh
\* both succeeded, so after a failed setup the map has no entry for it.
C24_SetupErrorsAndStore ==
    \A e \in Entries :
        /\ (nam_result[e].call = "setup" /\ nam_result[e].raised = "AuthFailed")
              => nam_result[e].value = "ConfigEntryAuthFailed"
        /\ (nam_result[e].call = "setup"
              /\ nam_result[e].raised \in {"ApiError", "ClientError",
                                           "ClientConnectorError", "TimeoutError"})
              => nam_result[e].value = "ConfigEntryNotReady"
        /\ e \in DOMAIN NamCoordinators => nam_pc[e] = "loaded"
        /\ (nam_result[e].call = "setup" /\ nam_result[e].value \notin {"running", "True"})
              => e \notin DOMAIN NamCoordinators
        /\ (nam_result[e].call = "setup" /\ nam_result[e].value = "True")
              => e \in DOMAIN NamCoordinators

\* one entry failed on AuthFailed and is absent from the map that holds the
\* coordinator of the other entry
C24_Witness ==
    /\ nam_result["e1"] = [call |-> "setup", raised |-> "AuthFailed",
                            value |-> "ConfigEntryAuthFailed"]
    /\ "e1" \notin DOMAIN NamCoordinators
    /\ "e2" \in DOMAIN NamCoordinators
    /\ nam_result["e2"].call = "setup"

\* C25: NAM async_unload_entry removes the coordinator of the entry from the
\* coordinator map exactly when unloading the platforms succeeded and returns
\* that flag; a failed unload leaves the map unchanged.
C25_UnloadPopsIffOk ==
    [][\A e \in Entries :
          /\ (nam_result'[e] # nam_result[e] /\ nam_result'[e].call = "unload"
                /\ nam_result'[e].value = "True")
                => /\ e \notin DOMAIN NamCoordinators'
                   /\ \A o \in Entries \ {e} :
                         /\ (o \in DOMAIN NamCoordinators) = (o \in DOMAIN NamCoordinators')
                         /\ o \in DOMAIN NamCoordinators
                               => NamCoordinators'[o] = NamCoordinators[o]
          /\ (nam_result'[e] # nam_result[e] /\ nam_result'[e].call = "unload"
                /\ nam_result'[e].value = "False")
                => hass_data' = hass_data
          /\ (e \in DOMAIN NamCoordinators /\ e \notin DOMAIN NamCoordinators')
                => nam_result'[e] = [call |-> "unload", raised |-> "None",
                                     value |-> "True"]
      ]_vars

\* a failed unload left the coordinator of e1 in the map, a successful one
\* removed that of e2
C25_Witness ==
    /\ nam_result["e1"] = [call |-> "unload", raised |-> "None", value |-> "False"]
    /\ "e1" \in DOMAIN NamCoordinators
    /\ nam_result["e2"] = [call |-> "unload", raised |-> "None", value |-> "True"]
    /\ NAM_DOMAIN \in DOMAIN hass_data
    /\ "e2" \notin DOMAIN NamCoordinators

\* the headlines of RawWarnings that contain "corona" in some mix of cases
CoronaHeadlines ==
    { <<"C", "o", "r", "o", "n", "a">>, <<"x", "c", "o", "R", "O", "N", "a", "!">> }

\* the positions of the warnings of a region that the filter does not omit
KeptPositions(raw_warnings) ==
    { i \in 1..Len(raw_warnings) :
        ~(corona_filter /\ raw_warnings[i].headline \in CoronaHeadlines) }

\* C26: what _parse_data returns has one entry for every region of the
\* fetched warnings, also for one whose warnings are all omitted; the entry
\* holds, in the order of the input, the warnings that are not omitted, and a
\* warning is omitted exactly when the corona filter is on and its headline
\* contains "corona" in any mix of cases; an ApiError of the update is raised
\* as UpdateFailed.
C26_ParseDataPerRegionInOrder ==
    /\ nina_result.type = "ok" =>
          /\ DOMAIN nina_result.data = DOMAIN nina_warnings
          /\ \A r \in DOMAIN nina_warnings :
                LET raw == nina_warnings[r]
                    out == nina_result.data[r]
                IN  /\ Len(out) = Cardinality(KeptPositions(raw))
                    /\ \E f \in [1..Len(out) -> KeptPositions(raw)] :
                          /\ \A i, j \in 1..Len(out) : i < j => f[i] < f[j]
                          /\ \A i \in 1..Len(out) :
                                /\ out[i].id = raw[f[i]].id
                                /\ out[i].headline = raw[f[i]].headline
    /\ nina_result.raised = "ApiError" => nina_result.type = "UpdateFailed"

\* the filter is on; the only warning of one region is omitted and the
\* region keeps an empty list; of the other region's two warnings the
\* mixed-case one is omitted and the near miss is kept
C26_Witness ==
    /\ nina_result.type = "ok"
    /\ corona_filter
    /\ DOMAIN nina_warnings = Regions
    /\ Len(nina_warnings["r1"]) = 1 /\ nina_warnings["r1"][1].id = "w1"
    /\ nina_result.data["r1"] = <<>>
    /\ Len(nina_warnings["r2"]) = 2
    /\ nina_warnings["r2"][1].id = "w2" /\ nina_warnings["r2"][2].id = "w3"
    /\ Len(nina_result.data["r2"]) = 1 /\ nina_result.data["r2"][1].id = "w3"

\* no setup has completed and no serial number, model or firmware is known
Uninitialized ==
    /\ setup_result # "ok"
    /\ unique_id = NoneValue /\ model = NoneValue /\ current_firmware = NoneValue

\* what the device answered for the value a property hands out
ReadFromDevice(name) ==
    CASE name \in {"unique_id", "mac"} -> DictGet(info, "NewSerialNumber")
      [] name = "model" -> DictGet(info, "NewModelName")
      [] name = "current_firmware" -> DictGet(info, "NewSoftwareVersion")

\* C27: read while the coordinator is uninitialized, the properties
\* unique_id, mac, model and current_firmware raise ClassSetupMissing; read
\* after a setup that succeeded they return a value and do not raise, model
\* and current_firmware the one the device answered and unique_id and mac the
\* serial number kept; a unique_id that is set is not changed by a later
\* setup.
C27_AccessorsAfterSetup ==
    [][/\ (accessed' # accessed /\ Uninitialized)
            => accessed'.value = "ClassSetupMissing"
       /\ (accessed' # accessed /\ setup_result = "ok")
            => /\ accessed'.value # "ClassSetupMissing"
               /\ accessed'.name \in {"unique_id", "mac"} => accessed'.value = unique_id
               /\ accessed'.name \in {"model", "current_firmware"}
                     => accessed'.value = ReadFromDevice(accessed'.name)
       /\ unique_id # NoneValue => unique_id' = unique_id
      ]_vars

\* C28: in every reachable state a record that is connected has a
\* last_activity: connected is set by an active entry, which stamps
\* last_activity, or by the window test, which needs a last_activity.
C28_ConnectedHasLastActivity ==
    \A m \in DOMAIN devices :
        devices[m].connected => devices[m].last_activity # NoTime

\* a record is connected by the window test alone: its last update, at
\* TickSeconds, was from an inactive entry and it was last active at 0
C28_Witness ==
    /\ pc = "loop" /\ HasMac(known_host) /\ ~known_host.status
    /\ devices[known_host.mac].connected
    /\ devices[known_host.mac].last_activity = 0
    /\ now = TickSeconds

\* C29: the window being fixed and the clock never going back, a record
\* goes from not connected to connected only in an update from an active
\* entry of its mac: no inactive entry and no absence brings it back.
C29_ReconnectsOnlyWhenActive ==
    [][\A m \in DOMAIN devices :
          (~devices[m].connected /\ m \in DOMAIN devices' /\ devices'[m].connected)
             => /\ Updates
                /\ known_host'.mac = m
                /\ known_host'.status]_vars

\* with a window of 0 a record last active at 0 has been updated from an
\* inactive entry in the second cycle, after the clock advanced, and is not
\* connected
C29_Witness ==
    /\ pc = "loop" /\ HasMac(known_host) /\ ~known_host.status
    /\ options = {<<CONF_CONSIDER_HOME, 0>>}
    /\ cycles = 2
    /\ devices[known_host.mac].last_activity = 0
    /\ now = TickSeconds
    /\ ~devices[known_host.mac].connected

\* C30: a cycle that raises inside the loop over the host list (the
\* GetWANAccessByIP call of an entry raises) has sent no signal, neither
\* device-update nor device-new, and the step that raises leaves the records
\* created or updated by the entries before it as they are.
C30_FailedLoopNoSignalNoRollback ==
    [][(pc' = "idle" /\ result'.origin = "GetWANAccessByIP")
          => /\ signals' = <<>>
             /\ pc = "loop" => devices' = devices]_vars

\* the lookup of a later entry raised after an earlier entry of the same
\* cycle had created a record: the record is there and no signal was sent
C30_Witness ==
    /\ pc = "idle"
    /\ result.origin = "GetWANAccessByIP"
    /\ signals = <<>>
    /\ DOMAIN devices # keys0

\* every key of the registry is a non-empty mac and the mac of its record
KeysAreMacs(devs) ==
    \A k \in DOMAIN devs : k # <<>> /\ devs[k].mac = k

\* C31: in every reachable state each key of _devices is non-empty and is
\* the mac of the record stored under it. When a scan meets a key twice, the
\* iteration over the first entry creates the record and the iteration over
\* the second updates that record (no key is added, the name and, for an
\* inactive entry, the last_activity are kept, and the ip and wan access of
\* the second entry are the ones stored); the scan sends device_new at most
\* once, and once when its loop has completed having created a record.
C31_OneRecordPerKey ==
    [][/\ KeysAreMacs(devices) /\ KeysAreMacs(devices')
       /\ (Updates /\ known_host'.mac \notin DOMAIN devices)
             => /\ DOMAIN devices' = DOMAIN devices \cup {known_host'.mac}
                /\ new_device'
       /\ (Updates /\ known_host'.mac \in scanned /\ known_host'.mac \notin keys0)
             => /\ known_host'.mac \in DOMAIN devices
                /\ DOMAIN devices' = DOMAIN devices
                /\ devices'[known_host'.mac].name = devices[known_host'.mac].name
                /\ ~known_host'.status
                      => devices'[known_host'.mac].last_activity
                            = devices[known_host'.mac].last_activity
                /\ devices'[known_host'.mac].ip_address = known_host'.ip
                /\ devices'[known_host'.mac].wan_access = ResolvedWanAccess
                /\ new_device /\ new_device'
       /\ Sent("device_new")' <= 1
       /\ (LoopCompleted' /\ pc' # "signal_new" /\ DOMAIN devices' # keys0')
             => Sent("device_new")' = 1
      ]_vars

\* the second entry of a key the scan created: the record did not exist when
\* the cycle started, carries the name of the first entry, which the entry at
\* hand does not have, and has the ip and the wan access of the entry at hand
C31_Witness ==
    /\ pc = "loop" /\ HasMac(known_host)
    /\ known_host.mac \notin keys0
    /\ known_host.name = <<>>
    /\ devices[known_host.mac].name = <<"p", "c">>
    /\ known_host.ip = "10.0.0.2"
    /\ wan_calls = <<[ip |-> "10.0.0.2", answer |-> {<<"NewDisallow", TRUE>>}]>>
    /\ devices[known_host.mac].ip_address = "10.0.0.2"
    /\ ~devices[known_host.mac].wan_access
    /\ new_device

====
